---- MODULE Spec2Model ----
(***************************************************************************)
(* A model of kindle_exporter.py: the export pipeline of main(), the       *)
(* annotation collector extract_highlights(), the header patterns, the     *)
(* book enumerator extract_books(), sanitize_filename() and                *)
(* write_markdown().  Strings are sequences of one-character strings, so   *)
(* that stripping, truncation and pattern search are computed.             *)
(***************************************************************************)
EXTENDS Integers, Sequences, FiniteSets, TLC

VARIABLES
    \* ---- main(): the pipeline
    pc,          \* position of main()
    force,       \* args.force
    dirExists,   \* NOTES_DIR exists
    store,       \* NOTES_DIR: file stem -> document lines, or NoFile
    existing,    \* the local `existing` of main()
    books,       \* the local `books` of main()
    i,           \* loop index of `for i, book in enumerate(books)` (1-based)
    exported,    \* the local `exported`
    skipped,     \* the local `skipped`
    exitCode,    \* process exit status (-1 while running)
    printed,     \* the kinds of lines printed so far by this run
    \* ---- the rendering collaborator (the page)
    library,     \* the sidebar entries and what the page renders for each
    view,        \* index of the book whose annotations are in the DOM, 0: no container
    pending,     \* index of the book whose annotations are still to be rendered, 0: none
    \* ---- history of the current run
    store0,      \* the store when the run started
    clicked,     \* indices of the books clicked
    log,         \* outcome of every finished loop iteration, in order
    writes,      \* number of write_markdown() calls
    written,     \* stems written, with the book and the view they came from
    snapshots,   \* number of existing_book_files() calls
    \* ---- the functions checked on their own
    applied,     \* the function has been applied to the input drawn
    \* ---- sanitize_filename() on its own
    k_title, k_author, k_stem,
    \* ---- the header patterns on their own
    h_raw, h_parsed,
    \* ---- the annotation loop of extract_highlights() on its own
    c_annotations, c_highlights

pipeVars == <<pc, force, dirExists, store, existing, books, i, exported, skipped,
              exitCode, printed, library, view, pending, store0, clicked, log,
              writes, written, snapshots>>
keyVars == <<k_title, k_author, k_stem>>
hdrVars == <<h_raw, h_parsed>>
colVars == <<c_annotations, c_highlights>>
vars == <<pipeVars, applied, keyVars, hdrVars, colVars>>

\* An element handle is <<>> (None: no such element) or <<its inner text>>;
\* a file of the store is <<>> (no such file) or <<its lines>>.
Absent == <<>>
El(text) == <<text>>
NoFile == <<>>

-----------------------------------------------------------------------------
(* Strings *)

\* str.strip()/\s: the whitespace characters
Whitespace == {" ", "\t", "\n"}

UpperCase == <<"A","B","C","D","E","F","G","H","I","J","K","L","M",
               "N","O","P","Q","R","S","T","U","V","W","X","Y","Z">>
LowerCase == <<"a","b","c","d","e","f","g","h","i","j","k","l","m",
               "n","o","p","q","r","s","t","u","v","w","x","y","z">>
Digits == {"0","1","2","3","4","5","6","7","8","9"}

\* re.IGNORECASE compares characters by their lower-case form
LowerOf ==
    [c \in {UpperCase[n] : n \in 1..Len(UpperCase)} |->
        LowerCase[CHOOSE n \in 1..Len(UpperCase) : UpperCase[n] = c]]

Lower(c) == IF c \in DOMAIN LowerOf THEN LowerOf[c] ELSE c

LowerStr(s) == [n \in 1..Len(s) |-> Lower(s[n])]

\* \w
WordChars ==
    {UpperCase[n] : n \in 1..Len(UpperCase)} \cup
    {LowerCase[n] : n \in 1..Len(LowerCase)} \cup Digits \cup {"_"}

\* s[a-1:b] of Python, 1-based and inclusive here
Slice(s, a, b) == IF a > b THEN <<>> ELSE SubSeq(s, a, b)

\* s[:n]
Take(s, n) == IF Len(s) <= n THEN s ELSE SubSeq(s, 1, n)

RECURSIVE LStrip(_, _)
LStrip(s, chars) ==
    IF s # <<>> /\ Head(s) \in chars THEN LStrip(Tail(s), chars) ELSE s

RECURSIVE RStrip(_, _)
RStrip(s, chars) ==
    IF s # <<>> /\ s[Len(s)] \in chars
    THEN RStrip(SubSeq(s, 1, Len(s) - 1), chars)
    ELSE s

\* str.strip(chars)
Strip(s, chars) == RStrip(LStrip(s, chars), chars)

\* inner_text().strip() of an element, "" when the element is None
TextOf(el) == IF el = Absent THEN <<>> ELSE Strip(el[1], Whitespace)

-----------------------------------------------------------------------------
(* sanitize_filename *)

CapLen == 200

IllegalChars == {"<", ">", ":", "\"", "/", "\\", "|", "?", "*"}

\* re.sub(r'[<>:"/\\|?*]', '', name)
RemoveIllegal(name) == SelectSeq(name, LAMBDA c : c \notin IllegalChars)

sanitize_filename(name) ==
    Take(Strip(RemoveIllegal(name), {".", " "}), CapLen)

\* f"{title} - {author}"
TitleDashAuthor(title, author) == title \o <<" ", "-", " ">> \o author

\* file_stem of main(), and the stem of the filename of write_markdown()
FileStem(title, author) == sanitize_filename(TitleDashAuthor(title, author))

-----------------------------------------------------------------------------
(* The values the variables of a part keep while another part is checked *)

PipeIdle ==
    /\ pc = "idle" /\ force = FALSE /\ dirExists = FALSE
    /\ store = <<>> /\ existing = {} /\ books = <<>> /\ i = 0
    /\ exported = 0 /\ skipped = 0 /\ exitCode = -1 /\ printed = {}
    /\ library = <<>> /\ view = 0 /\ pending = 0
    /\ store0 = <<>> /\ clicked = {} /\ log = <<>> /\ writes = 0
    /\ written = {} /\ snapshots = 0

NotApplied == applied = FALSE

KeyIdle == k_title = <<>> /\ k_author = <<>> /\ k_stem = <<>>

NoFields == [location |-> <<>>, page |-> <<>>, color |-> <<>>]

HdrIdle == h_raw = <<>> /\ h_parsed = NoFields

ColIdle == c_annotations = <<>> /\ c_highlights = <<>>

-----------------------------------------------------------------------------
(* sanitize_filename on its own: the stem of every (title, author) drawn    *)
(* from short edges around a run of filler, so that names shorter and      *)
(* longer than the cap both occur.                                         *)

MaxEdge == 2

KeyAlphabet == {"a", ".", " ", "/"}

RECURSIVE SeqsUpTo(_, _)
SeqsUpTo(S, n) ==
    IF n = 0 THEN {<<>>}
    ELSE LET shorter == SeqsUpTo(S, n - 1)
         IN  shorter \cup {Append(s, c) : s \in shorter, c \in S}

Filler(n) == [m \in 1..n |-> "a"]

FillerLens == {0} \cup ((CapLen - 5)..(CapLen + 1))

KeyEdges == SeqsUpTo(KeyAlphabet, MaxEdge)

KeyTitles == {h \o Filler(n) \o t : h \in KeyEdges, n \in FillerLens, t \in KeyEdges}

KeyAuthors == {<<"X">>, <<".">>, <<>>}

InitKey ==
    /\ k_title \in KeyTitles
    /\ k_author \in KeyAuthors
    /\ applied = FALSE
    /\ k_stem = <<>>
    /\ PipeIdle /\ HdrIdle /\ ColIdle

\* file_stem = sanitize_filename(f"{title} - {author}")
Sanitize ==
    /\ ~applied
    /\ applied' = TRUE
    /\ k_stem' = FileStem(k_title, k_author)
    /\ UNCHANGED <<k_title, k_author, pipeVars, hdrVars, colVars>>

NextKey == Sanitize

SpecKey == InitKey /\ [][NextKey]_vars

StemShort == Len(k_stem) <= CapLen

StemLegal == \A n \in 1..Len(k_stem) : k_stem[n] \notin IllegalChars

StemTrimmedLeft == k_stem # <<>> => k_stem[1] \notin {".", " "}

StemTrimmedRight == k_stem # <<>> => k_stem[Len(k_stem)] \notin {".", " "}

\* C8: every ExportKey is at most 200 characters long, holds none of the
\* characters < > : " / \ | ? *, and neither begins nor ends with a dot or a
\* space, also when the name is longer than 200 characters.
C8_KeyWellFormed ==
    applied =>
        StemShort /\ StemLegal /\ StemTrimmedLeft /\ StemTrimmedRight

\* The part of C8 the code does keep: length, legal characters, the left
\* edge; and the right edge of every name that is not truncated.
C8_KeyWellFormedUncut ==
    applied =>
        /\ StemShort /\ StemLegal /\ StemTrimmedLeft
        /\ Len(Strip(RemoveIllegal(TitleDashAuthor(k_title, k_author)), {".", " "}))
               <= CapLen => StemTrimmedRight

\* A name cut at the cap whose 200th character is the space before the dash
C8_Witness ==
    /\ applied
    /\ Len(k_stem) = CapLen
    /\ Len(TitleDashAuthor(k_title, k_author)) > CapLen
    /\ k_stem[CapLen] = " "

-----------------------------------------------------------------------------
(* The header patterns of extract_highlights *)

KwLocation == <<"l","o","c","a","t","i","o","n",":">>   \* "location:"
KwPage == <<"p","a","g","e",":">>   \* "page:"
KwHighlight == <<"h","i","g","h","l","i","g","h","t">>   \* "highlight"

\* the pattern's literal text matches at position p, letters compared by lower case
LiteralAt(h, kw, p) ==
    /\ p >= 1
    /\ p + Len(kw) - 1 <= Len(h)
    /\ \A n \in 1..Len(kw) : Lower(h[p + n - 1]) = kw[n]

\* \s* from position p: the first position at or after p that holds no whitespace
RECURSIVE SkipSpace(_, _)
SkipSpace(h, p) ==
    IF p <= Len(h) /\ h[p] \in Whitespace THEN SkipSpace(h, p + 1) ELSE p

\* \S+ from position p: the last position of the run without whitespace
RECURSIVE RunEnd(_, _)
RunEnd(h, p) ==
    IF p + 1 <= Len(h) /\ h[p + 1] \notin Whitespace THEN RunEnd(h, p + 1) ELSE p

\* kw\s*(\S+) matches at position p
TokenPatternAt(h, kw, p) ==
    /\ LiteralAt(h, kw, p)
    /\ SkipSpace(h, p + Len(kw)) <= Len(h)

\* re.search(kw + r'\s*(\S+)', h, re.IGNORECASE): group(1) of the leftmost
\* match (never empty), NoMatch when there is none
NoMatch == <<>>

SearchToken(h, kw) ==
    LET at == {p \in 1..Len(h) : TokenPatternAt(h, kw, p)}
    IN  IF at = {} THEN NoMatch
        ELSE LET p == CHOOSE q \in at : \A r \in at : q <= r
                 b == SkipSpace(h, p + Len(kw))
             IN  SubSeq(h, b, RunEnd(h, b))

\* the trailing commas kept
LocationOf_KeepsCommas(header_text) ==
    LET g == SearchToken(header_text, KwLocation)
    IN  IF g = NoMatch THEN <<>> ELSE g

\* lines 93-95
LocationOf(header_text) ==
    LET g == SearchToken(header_text, KwLocation)
    IN  IF g = NoMatch THEN <<>> ELSE RStrip(g, {","})

\* lines 97-99
PageOf(header_text) ==
    LET g == SearchToken(header_text, KwPage)
    IN  IF g = NoMatch THEN <<>> ELSE RStrip(g, {","})

\* \w+ from position 1: the length of the leading run of word characters
RECURSIVE WordEnd(_, _)
WordEnd(h, p) ==
    IF p + 1 <= Len(h) /\ h[p + 1] \in WordChars THEN WordEnd(h, p + 1) ELSE p

\* lines 101-103: re.match(r'(\w+)\s+highlight', h, re.IGNORECASE)
ColorOf(header_text) ==
    LET w == WordEnd(header_text, 0)
        b == SkipSpace(header_text, w + 1)
    IN  IF w >= 1 /\ b > w + 1 /\ LiteralAt(header_text, KwHighlight, b)
        THEN SubSeq(header_text, 1, w)
        ELSE <<>>

\* lines 89-103: the three fields of one header
parse_header(header_text) ==
    [location |-> LocationOf(header_text),
     page |-> PageOf(header_text),
     color |-> ColorOf(header_text)]

-----------------------------------------------------------------------------
(* The header patterns on their own: every header made of at most          *)
(* MaxPieces pieces, and the headers the documentation gives as examples.  *)

MaxPieces == 4

\* "Yellow", " ", "highlight", " | ", "Location:", "page:", "Page: 56,",
\* "Location: 1234", ",", "5"
HeaderPieces ==
    {<<"Y","e","l","l","o","w">>,
     <<" ">>,
     <<"h","i","g","h","l","i","g","h","t">>,
     <<" ","|"," ">>,
     <<"L","o","c","a","t","i","o","n",":">>,
     <<"p","a","g","e",":">>,
     <<"P","a","g","e",":"," ","5","6",",">>,
     <<"L","o","c","a","t","i","o","n",":"," ","1","2","3","4">>,
     <<",">>,
     <<"5">>}

\* "Yellow highlight | Location: 42"
HeaderYellow42 == <<"Y","e","l","l","o","w"," ","h","i","g","h","l","i","g","h","t"," ","|"," ","L","o","c","a","t","i","o","n",":"," ","4","2">>

\* "Yellow highlight | Page: 56, Location: 1234"
HeaderYellowPage == <<"Y","e","l","l","o","w"," ","h","i","g","h","l","i","g","h","t"," ","|"," ","P","a","g","e",":"," ","5","6",","," ","L","o","c","a","t","i","o","n",":"," ","1","2","3","4">>

RECURSIVE Concats(_, _)
Concats(S, n) ==
    IF n = 0 THEN {<<>>}
    ELSE LET shorter == Concats(S, n - 1)
         IN  shorter \cup {s \o piece : s \in shorter, piece \in S}

Headers == Concats(HeaderPieces, MaxPieces) \cup {HeaderYellow42, HeaderYellowPage}

InitHeader ==
    /\ h_raw \in Headers
    /\ applied = FALSE
    /\ h_parsed = NoFields
    /\ PipeIdle /\ KeyIdle /\ ColIdle

\* lines 85-103 for one header element
ParseHeader ==
    /\ ~applied
    /\ applied' = TRUE
    /\ h_parsed' = parse_header(TextOf(El(h_raw)))
    /\ UNCHANGED <<h_raw, pipeVars, keyVars, colVars>>

NextHeader == ParseHeader

SpecHeader == InitHeader /\ [][NextHeader]_vars

\* ---- what C9 says, in its own words

\* s holds t as a substring
Contains(s, t) ==
    \E p \in 1..(Len(s) - Len(t) + 1) : SubSeq(s, p, p + Len(t) - 1) = t

\* the positions where kw occurs in h, letters compared by lower case
Occurrences(h, kw) ==
    LET lh == LowerStr(h)
    IN  {p \in 1..(Len(h) - Len(kw) + 1) : SubSeq(lh, p, p + Len(kw) - 1) = kw}

RECURSIVE TakeWhile(_, _)
TakeWhile(s, chars) ==
    IF s # <<>> /\ Head(s) \in chars
    THEN <<Head(s)>> \o TakeWhile(Tail(s), chars)
    ELSE <<>>

RECURSIVE TakeUntil(_, _)
TakeUntil(s, chars) ==
    IF s # <<>> /\ Head(s) \notin chars
    THEN <<Head(s)>> \o TakeUntil(Tail(s), chars)
    ELSE <<>>

\* <<the text after the first occurrence of kw>>, <<>> without an occurrence
AfterFirst(h, kw) ==
    LET occ == Occurrences(h, kw)
    IN  IF occ = {} THEN <<>>
        ELSE LET p == CHOOSE q \in occ : \A r \in occ : q <= r
             IN  <<Slice(h, p + Len(kw), Len(h))>>

\* the first token without whitespace after the first kw, trailing commas stripped
FirstTokenAfter(h, kw) ==
    LET after == AfterFirst(h, kw)
    IN  IF after = <<>> THEN <<>>
        ELSE RStrip(TakeUntil(LStrip(after[1], Whitespace), Whitespace), {","})

\* the leading word, when whitespace and then "highlight" follow it
LeadingColor(h) ==
    LET word == TakeWhile(h, WordChars)
        rest == Slice(h, Len(word) + 1, Len(h))
        tail == LStrip(rest, Whitespace)
    IN  IF /\ word # <<>>
           /\ Len(tail) < Len(rest)
           /\ Len(tail) >= Len(KwHighlight)
           /\ LowerStr(SubSeq(tail, 1, Len(KwHighlight))) = KwHighlight
        THEN word ELSE <<>>

\* the first kw of h is followed by lit and then by whitespace or the end
FirstFollowedBy(h, kw, lit) ==
    LET after == AfterFirst(h, kw)
    IN  /\ after # <<>>
        /\ Len(after[1]) >= Len(lit)
        /\ SubSeq(after[1], 1, Len(lit)) = lit
        /\ (Len(after[1]) = Len(lit) \/ after[1][Len(lit) + 1] \in Whitespace)

Txt1234 == <<"1","2","3","4">>
Txt56 == <<"5","6">>
TxtYellow == <<"Y","e","l","l","o","w">>
TxtLoc1234Comma == <<"L","o","c","a","t","i","o","n",":"," ","1","2","3","4",",">>   \* "Location: 1234,"
TxtPageLoc == <<"P","a","g","e",":"," ","5","6",","," ","L","o","c","a","t","i","o","n",":"," ","1","2","3","4">>   \* "Page: 56, Location: 1234"
LitSp1234Comma == <<" ","1","2","3","4",",">>   \* " 1234,"
LitSp1234 == <<" ","1","2","3","4">>   \* " 1234"
LitSp56Comma == <<" ","5","6",",">>   \* " 56,"

HeaderText == TextOf(El(h_raw))

\* C9 as stated: every header containing "Location: 1234," parses to
\* location "1234"; every header containing "Page: 56, Location: 1234" parses
\* to page "56" and location "1234".
C9_ContainingParses ==
    applied =>
        /\ Contains(HeaderText, TxtLoc1234Comma) => h_parsed.location = Txt1234
        /\ Contains(HeaderText, TxtPageLoc) =>
               h_parsed.page = Txt56 /\ h_parsed.location = Txt1234

\* C9, amended: when the first "Location:" of the header is followed by
\* " 1234," and then whitespace or the end, location is "1234"; when also the
\* first "Page:" is followed by " 56," and then whitespace or the end, page is
\* "56"; "Yellow highlight | Location: 42" has color "Yellow"; location and
\* page are the first token without whitespace after the first
\* case-insensitive "Location:" and "Page:", trailing commas stripped; color
\* is the leading word that whitespace and "highlight" follow; a field whose
\* pattern does not occur is the empty string.
C9_HeaderFields ==
    applied =>
        /\ FirstFollowedBy(HeaderText, KwLocation, LitSp1234Comma)
               => h_parsed.location = Txt1234
        /\ (/\ FirstFollowedBy(HeaderText, KwPage, LitSp56Comma)
            /\ FirstFollowedBy(HeaderText, KwLocation, LitSp1234))
               => h_parsed.page = Txt56 /\ h_parsed.location = Txt1234
        /\ h_raw = HeaderYellow42 => h_parsed.color = TxtYellow
        /\ h_parsed.location = FirstTokenAfter(HeaderText, KwLocation)
        /\ h_parsed.page = FirstTokenAfter(HeaderText, KwPage)
        /\ h_parsed.color = LeadingColor(HeaderText)
        /\ Occurrences(HeaderText, KwLocation) = {} => h_parsed.location = <<>>
        /\ Occurrences(HeaderText, KwPage) = {} => h_parsed.page = <<>>
        /\ DOMAIN h_parsed = {"location", "page", "color"}

\* A parsed header with both patterns, commas stripped from both tokens
C9_Witness ==
    /\ applied
    /\ h_raw = HeaderYellowPage
    /\ h_parsed.page = Txt56
    /\ h_parsed.location = Txt1234
    /\ h_parsed.color = TxtYellow

-----------------------------------------------------------------------------
(* The annotation loop of extract_highlights *)

\* lines 73-103: the texts and the header fields of one annotation block
Record(ann) ==
    LET highlight_text == TextOf(ann.highlight)
        note_text == TextOf(ann.note)
        header_el == IF ann.highlightHeader # Absent
                     THEN ann.highlightHeader ELSE ann.noteHeader
        fields == parse_header(TextOf(header_el))
    IN  [text |-> highlight_text,
         note |-> note_text,
         location |-> fields.location,
         page |-> fields.page,
         color |-> fields.color]

\* the note forgotten: a block with a note alone is dropped
Retained_TextOnly(highlight_text, note_text) ==
    highlight_text # <<>>

\* line 105: if highlight_text or note_text
Retained(highlight_text, note_text) ==
    highlight_text # <<>> \/ note_text # <<>>

\* lines 71-114: the loop over the annotation blocks, from block n on
RECURSIVE CollectLoop(_, _, _)
CollectLoop(annotations, n, highlights) ==
    IF n > Len(annotations) THEN highlights
    ELSE LET r == Record(annotations[n])
         IN  CollectLoop(annotations, n + 1,
                 IF Retained(r.text, r.note) THEN Append(highlights, r)
                 ELSE highlights)

\* lines 67-114: the records of the annotation blocks queried
Collect(annotations) == CollectLoop(annotations, 1, <<>>)

-----------------------------------------------------------------------------
(* The annotation loop on its own: every list of at most MaxBlocks blocks  *)

MaxBlocks == 2

TxtQ == <<"q">>
TxtR == <<" ", "r", " ">>
TxtBlank == <<" ">>
TxtN == <<"n">>

\* "Note | Location: 1234"
HeaderNote == <<"N","o","t","e"," ","|"," ","L","o","c","a","t","i","o","n",":"," ","1","2","3","4">>

HighlightEls == {Absent, El(TxtBlank), El(TxtQ), El(TxtR)}
NoteEls == {Absent, El(<<>>), El(TxtN)}
HeaderEls ==
    {<<Absent, Absent>>, <<El(HeaderYellow42), Absent>>, <<Absent, El(HeaderNote)>>}

Blocks ==
    {[highlight |-> h, note |-> n, highlightHeader |-> hd[1], noteHeader |-> hd[2]] :
        h \in HighlightEls, n \in NoteEls, hd \in HeaderEls}

InitCollect ==
    /\ c_annotations \in SeqsUpTo(Blocks, MaxBlocks)
    /\ c_highlights = <<>>
    /\ applied = FALSE
    /\ PipeIdle /\ KeyIdle /\ HdrIdle

\* lines 67-114 on the blocks drawn
CollectStep ==
    /\ ~applied
    /\ applied' = TRUE
    /\ c_highlights' = Collect(c_annotations)
    /\ UNCHANGED <<c_annotations, pipeVars, keyVars, hdrVars>>

NextCollect == CollectStep

SpecCollect == InitCollect /\ [][NextCollect]_vars

\* the blocks with a highlight text or a note text
KeptBlocks(annotations) ==
    {n \in 1..Len(annotations) :
        \/ TextOf(annotations[n].highlight) # <<>>
        \/ TextOf(annotations[n].note) # <<>>}

\* the j-th of them, in rendered order
NthKept(annotations, j) ==
    CHOOSE n \in KeptBlocks(annotations) :
        Cardinality({m \in KeptBlocks(annotations) : m <= n}) = j

\* C7: the collector's output is the subsequence of the blocks whose highlight
\* text or note text is not empty, in rendered order: a block with both texts
\* empty (or both elements absent) is not in it, every other block is in it
\* once, and every record has a text or a note.
C7_CollectorKeepsNonEmpty ==
    applied =>
        /\ Len(c_highlights) = Cardinality(KeptBlocks(c_annotations))
        /\ \A j \in 1..Len(c_highlights) :
               /\ c_highlights[j] = Record(c_annotations[NthKept(c_annotations, j)])
               /\ c_highlights[j].text # <<>> \/ c_highlights[j].note # <<>>

\* A list with a kept block after a discarded one, the text stripped
C7_Witness ==
    /\ applied
    /\ Len(c_annotations) = 2
    /\ c_annotations[1].highlight = El(TxtBlank) /\ c_annotations[1].note = Absent
    /\ c_annotations[2].highlight = El(TxtR)
    /\ Len(c_highlights) = 1
    /\ c_highlights[1].text = <<"r">>

-----------------------------------------------------------------------------
(* extract_books, write_markdown, existing_book_files *)

KwBy == <<"b","y",":">>   \* "by:"
UnknownTitle == <<"U","n","k","n","o","w","n"," ","T","i","t","l","e">>
UnknownAuthor == <<"U","n","k","n","o","w","n"," ","A","u","t","h","o","r">>

\* line 48: re.sub(r'^By:\s*', '', author, flags=re.IGNORECASE)
StripBy(author) ==
    IF LiteralAt(author, KwBy, 1)
    THEN Slice(author, SkipSpace(author, Len(KwBy) + 1), Len(author))
    ELSE author

\* lines 38-50: one book per sidebar entry, in sidebar order; the element is
\* the entry's position in the sidebar
extract_books(entries) ==
    [n \in 1..Len(entries) |->
        [element |-> n,
         title |-> IF entries[n].title = Absent THEN UnknownTitle
                   ELSE TextOf(entries[n].title),
         author |-> StripBy(IF entries[n].author = Absent THEN UnknownAuthor
                            ELSE TextOf(entries[n].author))]]

LnTitle == <<"#"," ">>   \* "# "
LnAuthor == <<"*","*","A","u","t","h","o","r",":","*","*"," ">>   \* "**Author:** "
LnRule == <<"-","-","-">>   \* "---"
LnQuote == <<">"," ">>   \* "> "
LnNote == <<"*","*","N","o","t","e",":","*","*"," ">>   \* "**Note:** "
LnLocation == <<"*","*","L","o","c","a","t","i","o","n",":","*","*"," ">>   \* "**Location:** "
LnPage == <<"*","*","P","a","g","e",":","*","*"," ">>   \* "**Page:** "
LnBar == <<" ","|"," ">>   \* " | "

\* lines 131-148: the lines of one record
RecordLines(hl) ==
    LET quote == IF hl.text # <<>> THEN <<LnQuote \o hl.text, <<>>>> ELSE <<>>
        note == IF hl.note # <<>> THEN <<LnNote \o hl.note>> ELSE <<>>
        loc == IF hl.location # <<>> THEN <<LnLocation \o hl.location>> ELSE <<>>
        pg == IF hl.page # <<>> THEN <<LnPage \o hl.page>> ELSE <<>>
        meta_parts == loc \o pg
        meta == IF meta_parts = <<>> THEN <<>>
                ELSE IF Len(meta_parts) = 1 THEN <<meta_parts[1]>>
                ELSE <<meta_parts[1] \o LnBar \o meta_parts[2]>>
    IN  quote \o note \o meta \o <<<<>>, LnRule, <<>>>>

RECURSIVE AllRecordLines(_)
AllRecordLines(highlights) ==
    IF highlights = <<>> THEN <<>>
    ELSE RecordLines(Head(highlights)) \o AllRecordLines(Tail(highlights))

\* lines 122-148: the lines of the document
DocumentLines(book_title, author, highlights) ==
    <<LnTitle \o book_title, LnAuthor \o author, <<>>, LnRule, <<>>>>
        \o AllRecordLines(highlights)

\* lines 119-151: the output directory after the file is written
write_markdown(book_title, author, highlights, output_dir) ==
    [output_dir EXCEPT ![FileStem(book_title, author)] =
        <<DocumentLines(book_title, author, highlights)>>]

\* a pattern that matches no file of the directory
existing_book_files_None(output_dir) == {}

\* lines 154-156: the stems of the files of the output directory
existing_book_files(output_dir) ==
    {stem \in DOMAIN output_dir : output_dir[stem] # NoFile}

\* the flag forgotten: a book with a file is skipped under --force too
SkipExisting_IgnoresForce(force_, file_stem, existing_) ==
    file_stem \in existing_

\* line 207: if not args.force and file_stem in existing
SkipExisting(force_, file_stem, existing_) ==
    ~force_ /\ file_stem \in existing_

-----------------------------------------------------------------------------
(* The page: the sidebar entries, and what selecting each one renders *)

MaxBooks == 2

TxtAB == <<"A","B">>
TxtASlashB == <<"A","/","B">>
TxtC == <<" ","C"," ">>
TxtX == <<"X">>
TxtByX == <<"B","y",":"," ","X">>

\* the first two entries have the same file stem
EntryASlashB == [title |-> El(TxtASlashB), author |-> El(TxtByX)]
EntryAB == [title |-> El(TxtAB), author |-> El(TxtX)]
EntryC == [title |-> El(TxtC), author |-> Absent]

EmptyBlock ==
    [highlight |-> El(TxtBlank), note |-> Absent,
     highlightHeader |-> Absent, noteHeader |-> Absent]

QuoteBlock ==
    [highlight |-> El(TxtQ), note |-> Absent,
     highlightHeader |-> El(HeaderYellow42), noteHeader |-> Absent]

NoteBlock ==
    [highlight |-> Absent, note |-> El(TxtN),
     highlightHeader |-> Absent, noteHeader |-> El(HeaderNote)]

\* rows: an .a-row is under the annotation container; blocks: the
\* .a-row.a-spacing-base children of the container
NoRows == [rows |-> FALSE, blocks |-> <<>>]
BlankOnly == [rows |-> TRUE, blocks |-> <<EmptyBlock>>]
Annotated == [rows |-> TRUE, blocks |-> <<QuoteBlock, EmptyBlock, NoteBlock>>]

Renderings == {NoRows, BlankOnly, Annotated}

Shown(e, r) ==
    [title |-> e.title, author |-> e.author, rows |-> r.rows, blocks |-> r.blocks]

\* every entry with annotations and without
Sidebar ==
    {Shown(EntryASlashB, Annotated), Shown(EntryASlashB, NoRows),
     Shown(EntryAB, Annotated), Shown(EntryAB, BlankOnly),
     Shown(EntryC, Annotated), Shown(EntryC, BlankOnly)}

Libraries == SeqsUpTo(Sidebar, MaxBooks) \ {<<>>}

OldDocument == <<<<"o","l","d">>>>

AllStems ==
    {FileStem(b.title, b.author) :
        b \in {extract_books(<<e>>)[1] : e \in Sidebar}}

-----------------------------------------------------------------------------
(* main() *)

pureVars == <<applied, keyVars, hdrVars, colVars>>

InitialStores ==
    {[dir |-> FALSE, files |-> [stem \in AllStems |-> NoFile]]} \cup
    {[dir |-> TRUE, files |-> f] : f \in [AllStems -> {NoFile, <<OldDocument>>}]}

Init ==
    /\ pc = "start"
    /\ force \in BOOLEAN
    /\ library \in Libraries
    /\ \E s \in InitialStores :
           dirExists = s.dir /\ store = s.files /\ store0 = s.files
    /\ existing = {} /\ books = <<>> /\ i = 0
    /\ exported = 0 /\ skipped = 0 /\ exitCode = -1 /\ printed = {}
    /\ view = 0 /\ pending = 0
    /\ clicked = {} /\ log = <<>> /\ writes = 0 /\ written = {} /\ snapshots = 0
    /\ NotApplied /\ KeyIdle /\ HdrIdle /\ ColIdle

\* lines 171-174: no session file
SessionMissing ==
    /\ pc = "start"
    /\ pc' = "exited"
    /\ exitCode' = 1
    /\ printed' = printed \cup {"session file not found", "run auth_setup.py"}
    /\ UNCHANGED <<force, dirExists, store, existing, books, i, exported, skipped,
                   library, view, pending, store0, clicked, log, writes, written,
                   snapshots, pureVars>>

\* lines 171, 176: the session file is there; NOTES_DIR.mkdir(exist_ok=True)
MakeNotesDir ==
    /\ pc = "start"
    /\ pc' = "snapshot"
    /\ dirExists' = TRUE
    /\ UNCHANGED <<force, store, existing, books, i, exported, skipped, exitCode,
                   printed, library, view, pending, store0, clicked, log, writes,
                   written, snapshots, pureVars>>

\* line 177: existing = existing_book_files(NOTES_DIR)
SnapshotExisting ==
    /\ pc = "snapshot"
    /\ pc' = "navigate"
    /\ existing' = existing_book_files(store)
    /\ snapshots' = snapshots + 1
    /\ UNCHANGED <<force, dirExists, store, books, i, exported, skipped, exitCode,
                   printed, library, view, pending, store0, clicked, log, writes,
                   written, pureVars>>

\* lines 179-194: the navigation ends on a sign-in URL
NavigateSignin ==
    /\ pc = "navigate"
    /\ pc' = "exited"
    /\ exitCode' = 1
    /\ printed' = printed \cup {"navigating", "session expired, re-run auth_setup.py"}
    /\ UNCHANGED <<force, dirExists, store, existing, books, i, exported, skipped,
                   library, view, pending, store0, clicked, log, writes, written,
                   snapshots, pureVars>>

\* lines 179-191: the navigation ends on the notebook
NavigateNotebook ==
    /\ pc = "navigate"
    /\ pc' = "enumerate"
    /\ printed' = printed \cup {"navigating"}
    /\ UNCHANGED <<force, dirExists, store, existing, books, i, exported, skipped,
                   exitCode, library, view, pending, store0, clicked, log, writes,
                   written, snapshots, pureVars>>

\* lines 196, 34-37: wait_for_selector raises its timeout error, which nothing
\* catches: the interpreter prints the traceback and exits with status 1
LibraryTimeout ==
    /\ pc = "enumerate"
    /\ pc' = "exited"
    /\ exitCode' = 1
    /\ printed' = printed \cup {"traceback"}
    /\ UNCHANGED <<force, dirExists, store, existing, books, i, exported, skipped,
                   library, view, pending, store0, clicked, log, writes, written,
                   snapshots, pureVars>>

\* lines 196-200: the library is visible
ExtractBooks ==
    /\ pc = "enumerate"
    /\ pc' = "loop"
    /\ books' = extract_books(library)
    /\ printed' = printed \cup {"found books"}
    /\ exported' = 0
    /\ skipped' = 0
    /\ i' = 1
    /\ UNCHANGED <<force, dirExists, store, existing, exitCode, library, view,
                   pending, store0, clicked, log, writes, written, snapshots,
                   pureVars>>

\* line 205
file_stem == FileStem(books[i].title, books[i].author)

InLoop == pc = "loop" /\ i <= Len(books)

\* lines 203-209: the book has a file already
SkipBook ==
    /\ InLoop
    /\ SkipExisting(force, file_stem, existing)
    /\ skipped' = skipped + 1
    /\ i' = i + 1
    /\ log' = Append(log, "skip")
    /\ UNCHANGED <<pc, force, dirExists, store, existing, books, exported, exitCode,
                   printed, library, view, pending, store0, clicked, writes,
                   written, snapshots, pureVars>>

\* lines 203-214: the book is clicked; the page renders its annotations later,
\* and until then either keeps what it shows or drops the container
SelectBook ==
    /\ InLoop
    /\ ~SkipExisting(force, file_stem, existing)
    /\ pc' = "wait_annotations"
    /\ printed' = printed \cup {"progress"}
    /\ clicked' = clicked \cup {i}
    /\ pending' = books[i].element
    /\ view' \in {view, 0}
    /\ UNCHANGED <<force, dirExists, store, existing, books, i, exported, skipped,
                   exitCode, library, store0, log, writes, written, snapshots,
                   pureVars>>

\* lines 217-227: #kp-notebook-annotations is there
AnnotationsReady ==
    /\ pc = "wait_annotations"
    /\ view # 0
    /\ pc' = "wait_rows"
    /\ UNCHANGED <<force, dirExists, store, existing, books, i, exported, skipped,
                   exitCode, printed, library, view, pending, store0, clicked, log,
                   writes, written, snapshots, pureVars>>

\* the timeout error not caught: it ends the run
AnnotationsTimeout_Uncaught ==
    /\ pc = "wait_annotations"
    /\ view = 0
    /\ pc' = "exited"
    /\ exitCode' = 1
    /\ printed' = printed \cup {"traceback"}
    /\ UNCHANGED <<force, dirExists, store, existing, books, i, exported, skipped,
                   library, view, pending, store0, clicked, log, writes, written,
                   snapshots, pureVars>>

\* lines 217-224: it does not appear in time
AnnotationsTimeout ==
    /\ pc = "wait_annotations"
    /\ view = 0
    /\ pc' = "loop"
    /\ i' = i + 1
    /\ printed' = printed \cup {"timeout, skipping"}
    /\ log' = Append(log, "timeout")
    /\ UNCHANGED <<force, dirExists, store, existing, books, exported, skipped,
                   exitCode, library, view, pending, store0, clicked, writes,
                   written, snapshots, pureVars>>

RowsPresent == view # 0 /\ library[view].rows

\* lines 229, 56-65: an .a-row is there
RowsReady ==
    /\ pc = "wait_rows"
    /\ RowsPresent
    /\ pc' = "query"
    /\ UNCHANGED <<force, dirExists, store, existing, books, i, exported, skipped,
                   exitCode, printed, library, view, pending, store0, clicked, log,
                   writes, written, snapshots, pureVars>>

\* the book without rows counted among the skipped
RowsTimeout_CountsSkip ==
    /\ pc = "wait_rows"
    /\ ~RowsPresent
    /\ pc' = "loop"
    /\ i' = i + 1
    /\ skipped' = skipped + 1
    /\ printed' = printed \cup {"no highlights, skipping"}
    /\ log' = Append(log, "empty")
    /\ UNCHANGED <<force, dirExists, store, existing, books, exported,
                   exitCode, library, view, pending, store0, clicked, writes,
                   written, snapshots, pureVars>>

\* lines 229, 56-62, 231-233: no row appears in time, extract_highlights returns []
RowsTimeout ==
    /\ pc = "wait_rows"
    /\ ~RowsPresent
    /\ pc' = "loop"
    /\ i' = i + 1
    /\ printed' = printed \cup {"no highlights, skipping"}
    /\ log' = Append(log, "empty")
    /\ UNCHANGED <<force, dirExists, store, existing, books, exported, skipped,
                   exitCode, library, view, pending, store0, clicked, writes,
                   written, snapshots, pureVars>>

\* lines 67-69: the annotation blocks in the DOM
QueriedBlocks == IF view = 0 THEN <<>> ELSE library[view].blocks

\* lines 67-114 for every list of blocks the page renders
CollectedOf ==
    [blocks \in {r.blocks : r \in Renderings} \cup {<<>>} |-> Collect(blocks)]

\* line 229: highlights = extract_highlights(page), once the rows are there
highlights == CollectedOf[QueriedBlocks]

\* lines 67-114, 231-233: no record is retained
CollectNothing ==
    /\ pc = "query"
    /\ highlights = <<>>
    /\ pc' = "loop"
    /\ i' = i + 1
    /\ printed' = printed \cup {"no highlights, skipping"}
    /\ log' = Append(log, "empty")
    /\ UNCHANGED <<force, dirExists, store, existing, books, exported, skipped,
                   exitCode, library, view, pending, store0, clicked, writes,
                   written, snapshots, pureVars>>

\* the snapshot refreshed by the write
CollectAndWrite_Refreshes ==
    /\ pc = "query"
    /\ highlights # <<>>
    /\ store' = write_markdown(books[i].title, books[i].author, highlights, store)
    /\ existing' = existing \cup {file_stem}
    /\ exported' = exported + 1
    /\ writes' = writes + 1
    /\ written' = {w \in written : w.stem # file_stem} \cup
                  {[stem |-> file_stem, book |-> i, from |-> view]}
    /\ pc' = "loop"
    /\ i' = i + 1
    /\ printed' = printed \cup {"wrote"}
    /\ log' = Append(log, "write")
    /\ UNCHANGED <<force, dirExists, books, skipped, exitCode, library,
                   view, pending, store0, clicked, snapshots, pureVars>>

\* lines 67-114, 235-237: the records are written
CollectAndWrite ==
    /\ pc = "query"
    /\ highlights # <<>>
    /\ store' = write_markdown(books[i].title, books[i].author, highlights, store)
    /\ exported' = exported + 1
    /\ writes' = writes + 1
    /\ written' = {w \in written : w.stem # file_stem} \cup
                  {[stem |-> file_stem, book |-> i, from |-> view]}
    /\ pc' = "loop"
    /\ i' = i + 1
    /\ printed' = printed \cup {"wrote"}
    /\ log' = Append(log, "write")
    /\ UNCHANGED <<force, dirExists, existing, books, skipped, exitCode, library,
                   view, pending, store0, clicked, snapshots, pureVars>>

\* lines 239-241: after the last book
Finish ==
    /\ pc = "loop"
    /\ i > Len(books)
    /\ pc' = "done"
    /\ exitCode' = 0
    /\ printed' = printed \cup {"done"}
    /\ UNCHANGED <<force, dirExists, store, existing, books, i, exported, skipped,
                   library, view, pending, store0, clicked, log, writes, written,
                   snapshots, pureVars>>

\* the page: the annotations of the book clicked last replace what is shown
Render ==
    /\ pc \notin {"done", "exited"}
    /\ pending # 0
    /\ view' = pending
    /\ pending' = 0
    /\ UNCHANGED <<pc, force, dirExists, store, existing, books, i, exported,
                   skipped, exitCode, printed, library, store0, clicked, log,
                   writes, written, snapshots, pureVars>>

\* the user runs the script again, on the same library and the files left
RunAgain ==
    /\ pc \in {"done", "exited"}
    /\ pc' = "start"
    /\ force' \in BOOLEAN
    /\ store0' = store
    /\ existing' = {} /\ books' = <<>> /\ i' = 0
    /\ exported' = 0 /\ skipped' = 0 /\ exitCode' = -1 /\ printed' = {}
    /\ view' = 0 /\ pending' = 0
    /\ clicked' = {} /\ log' = <<>> /\ writes' = 0 /\ written' = {}
    /\ snapshots' = 0
    /\ UNCHANGED <<dirExists, store, library, pureVars>>

MainStep ==
    \/ SessionMissing
    \/ MakeNotesDir
    \/ SnapshotExisting
    \/ NavigateSignin
    \/ NavigateNotebook
    \/ LibraryTimeout
    \/ ExtractBooks
    \/ SkipBook
    \/ SelectBook
    \/ AnnotationsReady
    \/ AnnotationsTimeout
    \/ RowsReady
    \/ RowsTimeout
    \/ CollectNothing
    \/ CollectAndWrite
    \/ Finish

Next == MainStep \/ Render \/ RunAgain

Spec == Init /\ [][Next]_vars

\* main() is one thread and every wait of it is bounded: it always takes its
\* next step
FairSpec == Spec /\ WF_vars(MainStep)

-----------------------------------------------------------------------------
(* Properties of main() *)

\* the run is in the loop over the books, at a book
AtBook == pc \in {"loop", "wait_annotations", "wait_rows", "query"} /\ i <= Len(books)

\* the keys in the output store when the run started
KeysAtStart == {stem \in DOMAIN store0 : store0[stem] # NoFile}

ExportKey(j) == FileStem(books[j].title, books[j].author)

\* the reconciler's decision for book j has been taken
Decided(j) ==
    \/ j < i
    \/ j = i /\ pc \in {"wait_annotations", "wait_rows", "query"}

Count(seq, x) == Cardinality({n \in 1..Len(seq) : seq[n] = x})

\* the book at hand is one the reconciler skips
SkipCase == InLoop /\ ~force /\ ExportKey(i) \in KeysAtStart

C1_Selected ==
    \A j \in 1..Len(books) :
        Decided(j) => (j \in clicked <=> (force \/ ExportKey(j) \notin KeysAtStart))

C1_SkipOnlyCounts ==
    SkipCase =>
        /\ pc' = "loop"
        /\ clicked' = clicked
        /\ i' # i =>
               /\ i' = i + 1
               /\ skipped' = skipped + 1
               /\ UNCHANGED <<store, exported, view, pending, writes, written,
                              printed, existing, exitCode, dirExists>>

\* C1: a book is clicked if and only if force is set or its ExportKey is not
\* among the keys of the output store at the start of the run; for a book not
\* clicked the only change is skipped + 1: no click, no wait, no collection, no
\* write, no change of exported.
C1_SelectedIffForceOrNew == []C1_Selected /\ [][C1_SkipOnlyCounts]_vars

\* A finished run without force that skipped one book and clicked another
C1_Witness ==
    /\ pc = "done" /\ ~force
    /\ skipped = 1 /\ Cardinality(clicked) = 1
    /\ Len(books) = 2

\* C2: in a run without force, no artifact whose key was in the output store
\* at the start of the run is written or deleted: every such artifact keeps
\* its content, in a first run and in a run after it.
C2_ExistingUntouched ==
    ~force =>
        \A stem \in KeysAtStart :
            /\ store[stem] = store0[stem]
            /\ \A w \in written : w.stem # stem

\* A second run without force over a document an earlier run wrote, with
\* another book exported beside it
C2_Witness ==
    /\ pc = "done" /\ ~force
    /\ skipped >= 1 /\ exported >= 1
    /\ \E stem \in KeysAtStart : store0[stem] # <<OldDocument>>

\* the step that ends the book at hand without a record: the container is not
\* there in time, no row is there in time, or no block has a text or a note
ForfeitCase ==
    /\ i <= Len(books)
    /\ \/ pc = "wait_annotations" /\ view = 0
       \/ pc = "wait_rows" /\ ~RowsPresent
       \/ pc = "query" /\ KeptBlocks(QueriedBlocks) = {}

C3_ForfeitStep ==
    (ForfeitCase /\ pc' # pc) =>
        /\ pc' = "loop"
        /\ i' = i + 1
        /\ exitCode' = -1
        /\ UNCHANGED <<store, exported, skipped, writes, written, clicked, books>>

\* no book is gone back to within a run
C3_NoRetry ==
    (AtBook /\ pc' # "start") => (i' >= i /\ clicked' \subseteq clicked \cup {i})

Forfeited == log # <<>> /\ log[Len(log)] \in {"timeout", "empty"} /\ pc # "start"

\* C3: a book whose annotation view is not ready in time, or whose collection
\* retains no record, writes nothing, changes neither count, raises nothing
\* past its own step, is not retried, and the run goes on to the next book
\* and reaches Done.
C3_ForfeitIsNonFatal ==
    /\ [][C3_ForfeitStep]_vars
    /\ [][C3_NoRetry]_vars
    /\ [](AtBook => Len(log) = i - 1)
    /\ (Forfeited ~> (pc = "done" /\ exitCode = 0))

\* A finished run with a book that timed out and a book without records
C3_Witness ==
    /\ pc = "done"
    /\ Count(log, "timeout") >= 1 /\ Count(log, "empty") >= 1
    /\ exported = 0 /\ skipped = 0 /\ store = store0

ReauthMessages == {"run auth_setup.py", "session expired, re-run auth_setup.py"}

\* C4: each fatal end (no session file, a sign-in URL, no library in time)
\* exits with a status other than 0 and a message to re-authenticate, before
\* any book is clicked, with no artifact written, and without the Done line.
C4_FatalExits ==
    pc = "exited" =>
        /\ exitCode # 0
        /\ printed \cap ReauthMessages # {}
        /\ clicked = {} /\ writes = 0 /\ store = store0
        /\ "done" \notin printed

\* What the three fatal ends do keep: the status, no click, no write, no
\* Done line; the message only when the library wait is not what failed.
C4_FatalExitsButMessage ==
    pc = "exited" =>
        /\ exitCode # 0
        /\ "traceback" \notin printed => printed \cap ReauthMessages # {}
        /\ clicked = {} /\ writes = 0 /\ store = store0
        /\ "done" \notin printed

\* The library wait timed out
C4_Witness == pc = "exited" /\ "traceback" \in printed

\* C5: at Done, skipped is the number of books the reconciler skipped,
\* exported is the number of write_markdown calls, every book was visited once
\* and counted at most once, so exported + skipped <= books, clicked books =
\* books - skipped, and skipped = 0 under force.
C5_CountsAtDone ==
    pc = "done" =>
        /\ skipped = Cardinality({j \in 1..Len(books) :
                                     ~force /\ ExportKey(j) \in KeysAtStart})
        /\ skipped = Count(log, "skip")
        /\ exported = writes
        /\ exported = Count(log, "write")
        /\ Len(log) = Len(books)
        /\ exported + skipped <= Len(books)
        /\ Cardinality(clicked) = Len(books) - skipped
        /\ force => skipped = 0

\* Two books, one exported before: one skipped, the other exported
C5_Witness ==
    /\ pc = "done" /\ ~force /\ Len(books) = 2
    /\ exported = 1 /\ skipped = 1
    /\ Count(log, "skip") = 1

C6_SnapshotOnce ==
    /\ snapshots <= 1
    /\ (AtBook \/ pc = "done") => snapshots = 1
    /\ snapshots = 1 => (dirExists /\ existing = KeysAtStart)

C6_SnapshotFrozen ==
    existing' # existing => (pc = "snapshot" \/ pc' = "start")

\* the book at hand has the key of a document this run has written
DuplicateCase ==
    /\ InLoop /\ ~force
    /\ ExportKey(i) \notin KeysAtStart
    /\ \E w \in written : w.stem = ExportKey(i)

C6_DuplicateSelected == DuplicateCase => (i' = i /\ skipped' = skipped)

C6_WriteOverwrites ==
    writes' = writes + 1 =>
        /\ store'[ExportKey(i)] =
               <<DocumentLines(books[i].title, books[i].author,
                               Collect(QueriedBlocks))>>
        /\ \A stem \in DOMAIN store : stem # ExportKey(i) => store'[stem] = store[stem]

\* C6: the existing keys are read once per run, after the output directory
\* is ensured and before the first book, and never updated: with force unset,
\* a later book with the key of a document written earlier in the run is
\* still clicked and collected, and its write replaces that document whole.
C6_SnapshotNotRefreshed ==
    /\ []C6_SnapshotOnce
    /\ [][C6_SnapshotFrozen]_vars
    /\ [][C6_DuplicateSelected]_vars
    /\ [][C6_WriteOverwrites]_vars

\* Two books with one key, both written in a run without force
C6_Witness ==
    /\ pc = "done" /\ ~force
    /\ writes = 2 /\ Cardinality({w.stem : w \in written}) = 1
    /\ \A w \in written : w.book = 2 /\ w.stem \notin KeysAtStart
    /\ books[1].title # books[2].title

\* C10: every document is written from the annotations rendered for its own
\* book: the waits after a click are not satisfied by what the page still
\* shows for the book clicked before.
C10_OwnAnnotations ==
    \A w \in written : w.from = w.book

\* A document written from the annotations of the book clicked before
C10_Witness ==
    \E w \in written : w.book = 2 /\ w.from = 1

====
